---------------------------- MODULE Spec2Model ----------------------------
(***************************************************************************)
(* Stock technical analyzer: the CLI pipeline (stock_analyzer.py) and the  *)
(* web dashboard pipeline (app.py) over one price series, and the          *)
(* comparison of several symbols in either frontend.                       *)
(*                                                                         *)
(* Numbers.  The program computes in float64.  A column value is modelled  *)
(* as an extended rational [n, d]: d > 0 is the rational n/d in lowest     *)
(* terms, d = 0 is one of the IEEE specials NaN (0/0), +inf (1/0) and      *)
(* -inf (-1/0).  Arithmetic and comparisons follow the IEEE rules for the  *)
(* specials (x/0, NaN propagation, every comparison with NaN is false).    *)
(* Rounding of finite values is not modelled, except in the exponential    *)
(* recurrences and in the square root of the standard deviation, which are *)
(* computed in units of 1/EmaScale and rounded down at every step.         *)
(***************************************************************************)
EXTENDS Integers, Sequences, FiniteSets, TLC

VARIABLES frontend, pc, source, fetched, data, analysis, result, steps,
          mode, tickers, batch, attempts, all_data, chart, summary,
          period, requests

\* period is the period argument of the command line or of the selectbox;
\* requests holds the period of every stock.history call so far, in order

\* the state of the comparison of several symbols
cmpvars == <<mode, tickers, batch, attempts, all_data, chart, summary>>

\* the state of the analysis of one symbol
singlevars == <<source, fetched, data, analysis>>

vars == <<frontend, pc, source, fetched, data, analysis, result, steps,
          mode, tickers, batch, attempts, all_data, chart, summary,
          period, requests>>

-----------------------------------------------------------------------------
(* Bounds of the model *)

MaxLen == 61          \* longest price series the data source returns
EmaScale == 1000      \* resolution of the exponential recurrences
BasePrice == 500      \* first close of every series
MaxTickers == 3       \* most symbols in one comparison request

-----------------------------------------------------------------------------
(* float64 values *)

Abs(x) == IF x < 0 THEN -x ELSE x

RECURSIVE GCD(_, _)
GCD(a, b) == IF b = 0 THEN a ELSE GCD(b, a % b)

Rat(n, d) ==
    LET s == IF d < 0 THEN -1 ELSE 1
        g == GCD(Abs(n), Abs(d))
    IN  [n |-> (s * n) \div g, d |-> (s * d) \div g]

Num(i) == [n |-> i, d |-> 1]
NaN == [n |-> 0, d |-> 0]
PosInf == [n |-> 1, d |-> 0]
NegInf == [n |-> -1, d |-> 0]

isna(x) == x.d = 0 /\ x.n = 0
IsInf(x) == x.d = 0 /\ x.n # 0
IsFinite(x) == x.d > 0
Sign(x) == IF x.n > 0 THEN 1 ELSE IF x.n < 0 THEN -1 ELSE 0

FNeg(x) == [n |-> -x.n, d |-> x.d]

FAdd(a, b) ==
    IF isna(a) \/ isna(b) THEN NaN
    ELSE IF IsInf(a) THEN (IF IsInf(b) /\ b.n # a.n THEN NaN ELSE a)
    ELSE IF IsInf(b) THEN b
    ELSE IF a.d = 1 /\ b.d = 1 THEN Num(a.n + b.n)
    ELSE Rat(a.n * b.d + b.n * a.d, a.d * b.d)

FSub(a, b) == FAdd(a, FNeg(b))

FMul(a, b) ==
    IF isna(a) \/ isna(b) THEN NaN
    ELSE IF IsInf(a) \/ IsInf(b)
         THEN (IF Sign(a) * Sign(b) = 0 THEN NaN
               ELSE IF Sign(a) * Sign(b) > 0 THEN PosInf ELSE NegInf)
    ELSE Rat(a.n * b.n, a.d * b.d)

FDiv(a, b) ==
    IF isna(a) \/ isna(b) THEN NaN
    ELSE IF IsInf(a) THEN (IF IsInf(b) THEN NaN
                           ELSE IF Sign(b) < 0 THEN FNeg(a) ELSE a)
    ELSE IF IsInf(b) THEN Num(0)
    ELSE IF b.n = 0 THEN (IF a.n = 0 THEN NaN
                          ELSE IF a.n > 0 THEN PosInf ELSE NegInf)
    ELSE Rat(a.n * b.d, a.d * b.n)

FGt(a, b) ==
    /\ ~isna(a)
    /\ ~isna(b)
    /\ IF IsFinite(a) /\ IsFinite(b) THEN a.n * b.d > b.n * a.d
       ELSE (IF IsInf(a) THEN a.n ELSE 0) > (IF IsInf(b) THEN b.n ELSE 0)

FLt(a, b) == FGt(b, a)

-----------------------------------------------------------------------------
(* pandas Series operations used by the indicator computation.  A Series   *)
(* is a sequence of float64 values, row 0 of the program being index 1.    *)

\* Series.iloc[-1]
Last(x) == x[Len(x)]

\* Series.diff(): NaN at the first row
diff(x) == [i \in 1..Len(x) |-> IF i = 1 THEN NaN ELSE FSub(x[i], x[i - 1])]

\* delta.where(delta > 0, 0): keeps the value where the condition holds and
\* puts 0 elsewhere; the condition is false on NaN
where_gt0(x) == [i \in 1..Len(x) |-> IF FGt(x[i], Num(0)) THEN x[i] ELSE Num(0)]

\* -delta.where(delta < 0, 0)
neg_where_lt0(x) ==
    [i \in 1..Len(x) |-> IF FLt(x[i], Num(0)) THEN FNeg(x[i]) ELSE Num(0)]

\* running sums of the non-NaN values: CumSum(x)[i + 1] = x[1] + ... + x[i].
\* CumSumFrom gives the sums at rows lo..hi after a sum of seed before row lo,
\* the lower half of the rows first.
RECURSIVE CumSumFrom(_, _, _, _)
CumSumFrom(x, lo, hi, seed) ==
    IF lo > hi THEN <<>>
    ELSE IF lo = hi THEN <<IF isna(x[lo]) THEN seed ELSE FAdd(seed, x[lo])>>
    ELSE LET left == CumSumFrom(x, lo, (lo + hi) \div 2, seed)
         IN  left \o CumSumFrom(x, (lo + hi) \div 2 + 1, hi, Last(left))

CumSum(x) == <<Num(0)>> \o CumSumFrom(x, 1, Len(x), Num(0))

\* running counts of the NaN values: CumNaN(x)[i + 1] = number of NaN in x[1..i]
RECURSIVE CumNaNFrom(_, _, _, _)
CumNaNFrom(x, lo, hi, seed) ==
    IF lo > hi THEN <<>>
    ELSE IF lo = hi THEN <<IF isna(x[lo]) THEN seed + 1 ELSE seed>>
    ELSE LET left == CumNaNFrom(x, lo, (lo + hi) \div 2, seed)
         IN  left \o CumNaNFrom(x, (lo + hi) \div 2 + 1, hi, Last(left))

CumNaN(x) == <<0>> \o CumNaNFrom(x, 1, Len(x), 0)

\* rolling_mean over the k rows before the current one
rolling_mean_shifted(x, k) ==
    LET xs == SubSeq(x, 1, Len(x))
        cs == CumSum(xs)
        nn == CumNaN(xs)
    IN  [i \in 1..Len(x) |->
            IF i < k \/ nn[i + 1] - nn[i - k + 1] > 0 THEN NaN
            ELSE IF i = k THEN FDiv(FSub(cs[i + 1], cs[1]), Num(k))
            ELSE FDiv(FSub(cs[i], cs[i - k]), Num(k))]

\* Series.rolling(window=k).mean(): min_periods defaults to the window, so a
\* row with fewer than k observations (too early, or a NaN in the window) is NaN
rolling_mean(x, k) ==
    LET xs == SubSeq(x, 1, Len(x))
        cs == CumSum(xs)
        nn == CumNaN(xs)
    IN  [i \in 1..Len(x) |->
            IF i < k \/ nn[i + 1] - nn[i - k + 1] > 0 THEN NaN
            ELSE FDiv(FSub(cs[i + 1], cs[i - k + 1]), Num(k))]

\* r * r <= q, for r >= 0
SquareFits(r, q) == r = 0 \/ r <= q \div r

\* the largest digit d in 0..5 with (r + w * d) squared <= q
SqrtDigit(q, r, w) ==
    CHOOSE d \in 0..5 : SquareFits(r + w * d, q) /\ ~SquareFits(r + w * (d + 1), q)

\* largest r with r * r <= q, for q < 46656 * 46656: its six digits to the
\* base 6, the leading digit first
ISqrt(q) ==
    LET r5 == 7776 * SqrtDigit(q, 0, 7776)
        r4 == r5 + 1296 * SqrtDigit(q, r5, 1296)
        r3 == r4 + 216 * SqrtDigit(q, r4, 216)
        r2 == r3 + 36 * SqrtDigit(q, r3, 36)
        r1 == r2 + 6 * SqrtDigit(q, r2, 6)
    IN  r1 + SqrtDigit(q, r1, 1)

\* square root of a finite value >= 0, in units of 1/EmaScale, rounded down
Sqrt(x) ==
    LET q == (x.n \div x.d) * EmaScale * EmaScale
             + ((x.n % x.d) * EmaScale * EmaScale) \div x.d
    IN  Rat(ISqrt(q), EmaScale)

\* the deviation at row i from the running sums s1 of the values and s2 of
\* their squares, and the running NaN counts nn
StdAt(k, s1, s2, nn, i) ==
    IF i < k \/ nn[i + 1] - nn[i - k + 1] > 0 THEN NaN
    ELSE LET a == FSub(s1[i + 1], s1[i - k + 1])
             b == FSub(s2[i + 1], s2[i - k + 1])
         IN  Sqrt(FDiv(FSub(FMul(Num(k), b), FMul(a, a)), Num(k * (k - 1))))

RECURSIVE RollingStdFrom(_, _, _, _, _, _)
RollingStdFrom(k, s1, s2, nn, lo, hi) ==
    IF lo > hi THEN <<>>
    ELSE IF lo = hi THEN <<StdAt(k, s1, s2, nn, lo)>>
    ELSE RollingStdFrom(k, s1, s2, nn, lo, (lo + hi) \div 2)
         \o RollingStdFrom(k, s1, s2, nn, (lo + hi) \div 2 + 1, hi)

\* Series.rolling(window=k).std(): the sample standard deviation (ddof = 1) of
\* the k values ending at the row, NaN on a row with fewer than k
\* observations.  The sums are taken of the values less the first value,
\* which leaves the deviation unchanged.
rolling_std(x, k) ==
    LET xs == SubSeq(x, 1, Len(x))
        ys == SubSeq([i \in 1..Len(xs) |->
                         IF isna(xs[i]) THEN NaN ELSE FSub(xs[i], xs[1])], 1, Len(xs))
        sq == SubSeq([i \in 1..Len(ys) |-> FMul(ys[i], ys[i])], 1, Len(ys))
    IN  RollingStdFrom(k, CumSum(ys), CumSum(sq), CumNaN(xs), 1, Len(x))

\* float64 value in units of 1/EmaScale, rounded down
ToFix(x) == (x.n * EmaScale) \div x.d

\* Series.ewm(span=span, adjust=False).mean():
\*   y[0] = x[0],  y[t] = (1 - a) * y[t-1] + a * x[t],  a = 2 / (span + 1)
\* EwmFrom gives the averages at rows lo..hi after an average of seed at row
\* lo - 1, the lower half of the rows first
RECURSIVE EwmFrom(_, _, _, _, _)
EwmFrom(x, span, lo, hi, seed) ==
    IF lo > hi THEN <<>>
    ELSE IF lo = hi
         THEN <<((span - 1) * seed + 2 * ToFix(x[lo])) \div (span + 1)>>
         ELSE LET left == EwmFrom(x, span, lo, (lo + hi) \div 2, seed)
              IN  left \o EwmFrom(x, span, (lo + hi) \div 2 + 1, hi, Last(left))

\* ewm_mean started from 0 instead of from the first value
ewm_mean_zero_seed(x, span) ==
    IF Len(x) = 0 THEN <<>>
    ELSE LET xs == SubSeq(x, 1, Len(x))
             y1 == (2 * ToFix(xs[1])) \div (span + 1)
             y == <<y1>> \o EwmFrom(xs, span, 2, Len(xs), y1)
         IN  [i \in 1..Len(x) |-> Rat(y[i], EmaScale)]

ewm_mean(x, span) ==
    IF Len(x) = 0 THEN <<>>
    ELSE LET xs == SubSeq(x, 1, Len(x))
             y1 == ToFix(xs[1])
             y == <<y1>> \o EwmFrom(xs, span, 2, Len(xs), y1)
         IN  [i \in 1..Len(x) |-> Rat(y[i], EmaScale)]

\* element-wise a - b
SeriesSub(a, b) == [i \in 1..Len(a) |-> FSub(a[i], b[i])]

\* element-wise a / b
SeriesDiv(a, b) == [i \in 1..Len(a) |-> FDiv(a[i], b[i])]

\* Series.pct_change(): NaN at the first row
pct_change(x) ==
    [i \in 1..Len(x) |-> IF i = 1 THEN NaN ELSE FSub(FDiv(x[i], x[i - 1]), Num(1))]

-----------------------------------------------------------------------------
(* DataFrames.  A table maps column names to Series of one length.  The    *)
(* price columns other than Close take no part in the indicators and are   *)
(* left out.                                                               *)

NoTable == [c \in {} |-> <<>>]
PriceTable(closes) == [c \in {"Close"} |-> [i \in 1..Len(closes) |-> Num(closes[i])]]

NRows(t) == IF "Close" \in DOMAIN t THEN Len(t["Close"]) ELSE 0

\* DataFrame.empty
empty(t) == NRows(t) = 0

\* df[c] = s for every column c of new: a new column, or an overwritten one
Assign(t, new) ==
    [c \in DOMAIN t \cup DOMAIN new |-> IF c \in DOMAIN new THEN new[c] ELSE t[c]]

-----------------------------------------------------------------------------
(* Indicator computation *)

\* RSI_cli with gain and loss exchanged in the ratio
RSI_cli_swapped(Close) ==
    LET delta == diff(Close)
        gain == rolling_mean(where_gt0(delta), 14)
        loss == rolling_mean(neg_where_lt0(delta), 14)
        rs == SeriesDiv(loss, gain)
    IN  [i \in 1..Len(Close) |->
            FSub(Num(100), FDiv(Num(100), FAdd(Num(1), rs[i])))]

\* RSI of a Close series, stock_analyzer.py
RSI_cli(Close) ==
    LET delta == diff(Close)
        gain == rolling_mean(where_gt0(delta), 14)
        loss == rolling_mean(neg_where_lt0(delta), 14)
        rs == SeriesDiv(gain, loss)
    IN  [i \in 1..Len(Close) |->
            FSub(Num(100), FDiv(Num(100), FAdd(Num(1), rs[i])))]

\* RSI of a Close series, app.py
RSI_web(Close) ==
    LET delta == diff(Close)
        gain == rolling_mean(where_gt0(delta), 14)
        loss == rolling_mean(neg_where_lt0(delta), 14)
        rs == SeriesDiv(gain, loss)
    IN  [i \in 1..Len(Close) |->
            FSub(Num(100), FDiv(Num(100), FAdd(Num(1), rs[i])))]

\* element-wise a + b
SeriesAdd(a, b) == [i \in 1..Len(a) |-> FAdd(a[i], b[i])]

\* element-wise a * c for a number c
SeriesScale(a, c) == [i \in 1..Len(a) |-> FMul(a[i], Num(c))]

\* bollinger_cli with the lower band on the upper side
bollinger_cli_same_side(Close) ==
    LET BB_Middle == rolling_mean(Close, 20)
        bb_std_dev == rolling_std(Close, 20)
    IN  [BB_Middle |-> BB_Middle,
         BB_Upper |-> SeriesAdd(BB_Middle, SeriesScale(bb_std_dev, 2)),
         BB_Lower |-> SeriesAdd(BB_Middle, SeriesScale(bb_std_dev, 2))]

\* Bollinger bands, stock_analyzer.py: bb_period = 20, bb_std = 2
bollinger_cli(Close) ==
    LET BB_Middle == rolling_mean(Close, 20)
        bb_std_dev == rolling_std(Close, 20)
    IN  [BB_Middle |-> BB_Middle,
         BB_Upper |-> SeriesAdd(BB_Middle, SeriesScale(bb_std_dev, 2)),
         BB_Lower |-> SeriesSub(BB_Middle, SeriesScale(bb_std_dev, 2))]

\* Bollinger bands, app.py: bb_period = 20
bollinger_web(Close) ==
    LET BB_Middle == rolling_mean(Close, 20)
        bb_std == rolling_std(Close, 20)
    IN  [BB_Middle |-> BB_Middle,
         BB_Upper |-> SeriesAdd(BB_Middle, SeriesScale(bb_std, 2)),
         BB_Lower |-> SeriesSub(BB_Middle, SeriesScale(bb_std, 2))]

\* The columns StockAnalyzer.calculate_technical_indicators writes
IndicatorsCli(t) ==
    LET Close == t["Close"]
        MACD == SeriesSub(ewm_mean(Close, 12), ewm_mean(Close, 26))
        Signal == ewm_mean(MACD, 9)
        bb == bollinger_cli(Close)
    IN  [SMA_10 |-> rolling_mean(Close, 10),
         SMA_30 |-> rolling_mean(Close, 30),
         SMA_60 |-> rolling_mean(Close, 60),
         Volatility |-> rolling_std(Close, 20),
         RSI |-> RSI_cli(Close),
         MACD |-> MACD,
         Signal |-> Signal,
         Histogram |-> SeriesSub(MACD, Signal),
         BB_Middle |-> bb.BB_Middle,
         BB_Upper |-> bb.BB_Upper,
         BB_Lower |-> bb.BB_Lower,
         Daily_Return |-> [i \in 1..Len(Close) |->
                              FMul(pct_change(Close)[i], Num(100))]]

\* calculate_technical_indicators followed by a dropna: only the rows where
\* every column is defined are kept
calculate_technical_indicators_dropna(t) ==
    LET full == Assign(t, IndicatorsCli(t))
        keep == {i \in 1..NRows(t) : \A col \in DOMAIN full : ~isna(full[col][i])}
        row(j) == CHOOSE i \in keep : Cardinality({m \in keep : m <= i}) = j
    IN  [col \in DOMAIN full |-> [j \in 1..Cardinality(keep) |-> full[col][row(j)]]]

\* StockAnalyzer.calculate_technical_indicators: writes the columns into
\* self.data itself
calculate_technical_indicators(t) == Assign(t, IndicatorsCli(t))

\* The columns calculate_indicators writes
IndicatorsWeb(df) ==
    LET Close == df["Close"]
        MACD == SeriesSub(ewm_mean(Close, 12), ewm_mean(Close, 26))
        Signal == ewm_mean(MACD, 9)
        bb == bollinger_web(Close)
    IN  [SMA_10 |-> rolling_mean(Close, 10),
         SMA_30 |-> rolling_mean(Close, 30),
         SMA_60 |-> rolling_mean(Close, 60),
         Volatility |-> rolling_std(Close, 20),
         RSI |-> RSI_web(Close),
         MACD |-> MACD,
         Signal |-> Signal,
         Histogram |-> SeriesSub(MACD, Signal),
         BB_Middle |-> bb.BB_Middle,
         BB_Upper |-> bb.BB_Upper,
         BB_Lower |-> bb.BB_Lower]

\* calculate_indicators: df = data.copy(), the columns are written into df,
\* df is returned
calculate_indicators(t) == Assign(t, IndicatorsWeb(t))

-----------------------------------------------------------------------------
(* Classification of the last row *)

\* trend_cli with the second rule tested before the first
trend_cli_swapped(latest_price, sma_10, sma_30) ==
    IF FGt(latest_price, sma_10) THEN "Moderately Bullish"
    ELSE IF FGt(latest_price, sma_10) /\ FGt(sma_10, sma_30) THEN "Strong Bullish"
    ELSE IF FLt(latest_price, sma_10) /\ FLt(sma_10, sma_30) THEN "Strong Bearish"
    ELSE IF FLt(latest_price, sma_10) THEN "Moderately Bearish"
    ELSE "Sideways"

\* trend_cli with the second rule testing the price against SMA_30
trend_cli_above_sma30(latest_price, sma_10, sma_30) ==
    IF FGt(latest_price, sma_10) /\ FGt(sma_10, sma_30) THEN "Strong Bullish"
    ELSE IF FGt(latest_price, sma_30) THEN "Moderately Bullish"
    ELSE IF FLt(latest_price, sma_10) /\ FLt(sma_10, sma_30) THEN "Strong Bearish"
    ELSE IF FLt(latest_price, sma_10) THEN "Moderately Bearish"
    ELSE "Sideways"

\* StockAnalyzer.analyze_trend, the trend chain
trend_cli(latest_price, sma_10, sma_30) ==
    IF FGt(latest_price, sma_10) /\ FGt(sma_10, sma_30) THEN "Strong Bullish"
    ELSE IF FGt(latest_price, sma_10) THEN "Moderately Bullish"
    ELSE IF FLt(latest_price, sma_10) /\ FLt(sma_10, sma_30) THEN "Strong Bearish"
    ELSE IF FLt(latest_price, sma_10) THEN "Moderately Bearish"
    ELSE "Sideways"

\* StockAnalyzer.analyze_trend, the RSI chain
rsi_signal_cli(rsi) ==
    IF FGt(rsi, Num(70)) THEN "Overbought"
    ELSE IF FLt(rsi, Num(30)) THEN "Oversold"
    ELSE "Neutral"

\* macd_signal_cli with a non-strict comparison
macd_signal_cli_ge(macd, signal) == IF ~FLt(macd, signal) THEN "Bullish" ELSE "Bearish"

\* StockAnalyzer.analyze_trend, the MACD test
macd_signal_cli(macd, signal) == IF FGt(macd, signal) THEN "Bullish" ELSE "Bearish"

\* analyze_trend with the period return taken from the last close back to
\* the first
analyze_trend_return_inverted(t) ==
    LET latest_price == Last(t["Close"])
        sma_10 == Last(t["SMA_10"])
        sma_30 == Last(t["SMA_30"])
        rsi == Last(t["RSI"])
        macd == Last(t["MACD"])
        signal == Last(t["Signal"])
    IN  [trend |-> trend_cli(latest_price, sma_10, sma_30),
         latest_price |-> latest_price,
         sma_10 |-> sma_10,
         sma_30 |-> sma_30,
         rsi |-> rsi,
         rsi_signal |-> rsi_signal_cli(rsi),
         macd |-> macd,
         signal |-> signal,
         macd_signal |-> macd_signal_cli(macd, signal),
         period_return |->
             FMul(FSub(FDiv(t["Close"][1], latest_price), Num(1)), Num(100))]

\* StockAnalyzer.analyze_trend
analyze_trend(t) ==
    LET latest_price == Last(t["Close"])
        sma_10 == Last(t["SMA_10"])
        sma_30 == Last(t["SMA_30"])
        rsi == Last(t["RSI"])
        macd == Last(t["MACD"])
        signal == Last(t["Signal"])
    IN  [trend |-> trend_cli(latest_price, sma_10, sma_30),
         latest_price |-> latest_price,
         sma_10 |-> sma_10,
         sma_30 |-> sma_30,
         rsi |-> rsi,
         rsi_signal |-> rsi_signal_cli(rsi),
         macd |-> macd,
         signal |-> signal,
         macd_signal |-> macd_signal_cli(macd, signal),
         period_return |->
             FMul(FSub(FDiv(latest_price, t["Close"][1]), Num(1)), Num(100))]

\* app.py, single-symbol mode: the trend badge
trend_web(latest, sma10, sma30) ==
    IF ~isna(sma10) /\ ~isna(sma30)
    THEN IF FGt(latest, sma10) /\ FGt(sma10, sma30) THEN "Strong Bullish"
         ELSE IF FGt(latest, sma10) THEN "Moderately Bullish"
         ELSE IF FLt(latest, sma10) /\ FLt(sma10, sma30) THEN "Strong Bearish"
         ELSE IF FLt(latest, sma10) THEN "Moderately Bearish"
         ELSE "Sideways"
    ELSE "Insufficient Data"

\* app.py: x.iloc[-1] if not pd.isna(x.iloc[-1]) else 0
or_zero(x) == IF ~isna(x) THEN x ELSE Num(0)

\* app.py, the RSI card's label
rsi_signal_web(rsi) ==
    IF FGt(rsi, Num(70)) THEN "Overbought"
    ELSE (IF FLt(rsi, Num(30)) THEN "Oversold" ELSE "Neutral")

\* app.py, the MACD card's label
macd_signal_web(macd_val, signal_val) ==
    IF FGt(macd_val, signal_val) THEN "Bullish" ELSE "Bearish"

\* app.py, single-symbol mode: the values behind the cards and the badge
web_analysis(t) ==
    LET latest == Last(t["Close"])
        rsi == or_zero(Last(t["RSI"]))
        macd_val == or_zero(Last(t["MACD"]))
        signal_val == or_zero(Last(t["Signal"]))
        sma10 == Last(t["SMA_10"])
        sma30 == Last(t["SMA_30"])
    IN  [trend |-> trend_web(latest, sma10, sma30),
         latest_price |-> latest,
         sma_10 |-> sma10,
         sma_30 |-> sma30,
         rsi |-> rsi,
         rsi_signal |-> rsi_signal_web(rsi),
         macd |-> macd_val,
         signal |-> signal_val,
         macd_signal |-> macd_signal_web(macd_val, signal_val),
         period_return |->
             FMul(FSub(FDiv(latest, t["Close"][1]), Num(1)), Num(100))]

NoAnalysis == [c \in {} |-> ""]

-----------------------------------------------------------------------------
(* The data source.  A price series rises or falls by a fixed step per bar *)
(* and may change its step once, Tail bars before its end.                 *)

Slopes == {-7, -3, 0, 3, 7}
Tails == {7, 12}

Min(a, b) == IF a < b THEN a ELSE b
Max(a, b) == IF a > b THEN a ELSE b

Shape(n, s1, s2, k) ==
    [i \in 1..n |-> BasePrice + s1 * (Min(i, n - k) - 1) + s2 * Max(0, i - (n - k))]

SeriesSet ==
    {Shape(n, s, s, 0) : n \in 1..MaxLen, s \in Slopes}
    \cup UNION {{Shape(n, s1, s2, k) : s1 \in Slopes, s2 \in Slopes} :
                    <<n, k>> \in {nk \in (1..MaxLen) \X Tails : nk[1] - nk[2] >= 2}}

\* What yf.Ticker(ticker).history(period) does for the requested symbol:
\* returns a table with bars, returns an empty table, or raises
Sources ==
    {[outcome |-> "data", close |-> s] : s \in SeriesSet}
    \cup {[outcome |-> "empty", close |-> <<>>], [outcome |-> "raise", close |-> <<>>]}

-----------------------------------------------------------------------------
(* The comparison of several symbols *)

Symbols == {"AAPL", "TSLA", "GOOGL"}

\* the ticker lists of lo to MaxTickers symbols
TickerLists(lo) == UNION {[1..n -> Symbols] : n \in lo..MaxTickers}

\* The bars the data source holds for a symbol: a rising series, a series
\* that falls and turns, and a single bar
HistoryOf(ticker) ==
    IF ticker = "AAPL" THEN Shape(16, 3, 3, 0)
    ELSE IF ticker = "TSLA" THEN Shape(21, -7, 3, 7)
    ELSE Shape(1, 0, 0, 0)

\* What yf.Ticker(ticker).history(period) does at the j-th request of the
\* batch: returns the symbol's bars, returns an empty table, or raises
BatchSource(j) ==
    [outcome |-> batch[j],
     close |-> IF batch[j] = "data" THEN HistoryOf(tickers[j]) ELSE <<>>]

NoData == [t \in {} |-> NoTable]
NoChart == [c \in {} |-> NoData]
NoSummary == [t \in {} |-> NoAnalysis]

HasChart == "normalized" \in DOMAIN chart

\* all_data[ticker] = table
Put(all, ticker, table) ==
    [t \in DOMAIN all \cup {ticker} |-> IF t = ticker THEN table ELSE all[t]]

\* compare_fetch keeping the table of a request that returned no bars
compare_fetch_keep_empty(all, ticker, src) ==
    IF src.outcome = "raise" THEN all
    ELSE Put(all, ticker, PriceTable(src.close))

\* compare_stocks, the body of the fetch loop after the sleep: the try block
\* and its handler
compare_fetch(all, ticker, src) ==
    IF src.outcome = "raise" THEN all
    ELSE IF ~empty(PriceTable(src.close))
         THEN Put(all, ticker, PriceTable(src.close))
         ELSE all

\* app.py, comparison mode: the body of the fetch loop
web_compare_fetch(all, ticker, src) ==
    IF src.outcome = "raise" THEN all
    ELSE IF ~empty(PriceTable(src.close))
         THEN Put(all, ticker, PriceTable(src.close))
         ELSE all

\* too_few with one symbol accepted
too_few_below_one(all) == Cardinality(DOMAIN all) < 1

\* len(all_data) < 2
too_few(all) == Cardinality(DOMAIN all) < 2

\* normalized with the first close as 1 instead of 100
normalized_base_one(Close) ==
    [i \in 1..Len(Close) |-> FMul(FDiv(Close[i], Close[1]), Num(1))]

\* (data['Close'] / data['Close'].iloc[0]) * 100
normalized(Close) ==
    [i \in 1..Len(Close) |-> FMul(FDiv(Close[i], Close[1]), Num(100))]

\* ((data['Close'] / data['Close'].iloc[0]) - 1) * 100
cumulative(Close) ==
    [i \in 1..Len(Close) |-> FMul(FSub(FDiv(Close[i], Close[1]), Num(1)), Num(100))]

\* data['Close'].pct_change() * 100
returns(Close) ==
    [i \in 1..Len(Close) |-> FMul(pct_change(Close)[i], Num(100))]

\* compare_stocks, panel (2): the RSI of a symbol
compare_rsi(Close) ==
    LET delta == diff(Close)
        gain == rolling_mean(where_gt0(delta), 14)
        loss == rolling_mean(neg_where_lt0(delta), 14)
        rs == SeriesDiv(gain, loss)
    IN  [i \in 1..Len(Close) |->
            FSub(Num(100), FDiv(Num(100), FAdd(Num(1), rs[i])))]

\* compare_stocks: the four panels of the comparison chart
compare_chart(all) ==
    [normalized |-> [t \in DOMAIN all |-> normalized(all[t]["Close"])],
     rsi |-> [t \in DOMAIN all |-> compare_rsi(all[t]["Close"])],
     returns |-> [t \in DOMAIN all |-> returns(all[t]["Close"])],
     cumulative |-> [t \in DOMAIN all |-> cumulative(all[t]["Close"])]]

\* compare_stocks: the rows of the comparison summary
compare_summary(all) ==
    [t \in DOMAIN all |->
        LET Close == all[t]["Close"]
            latest == Last(Close)
        IN  [latest |-> latest,
             ret |-> FMul(FSub(FDiv(latest, Close[1]), Num(1)), Num(100)),
             rsi |-> Last(compare_rsi(Close))]]

\* app.py, create_comparison_chart: the four panels
create_comparison_chart(all) ==
    [normalized |->
         [t \in DOMAIN all |->
             [i \in 1..NRows(all[t]) |->
                 FMul(FDiv(all[t]["Close"][i], all[t]["Close"][1]), Num(100))]],
     rsi |-> [t \in DOMAIN all |-> RSI_web(all[t]["Close"])],
     returns |->
         [t \in DOMAIN all |->
             [i \in 1..NRows(all[t]) |->
                 FMul(pct_change(all[t]["Close"])[i], Num(100))]],
     cumulative |->
         [t \in DOMAIN all |->
             [i \in 1..NRows(all[t]) |->
                 FMul(FSub(FDiv(all[t]["Close"][i], all[t]["Close"][1]), Num(1)),
                      Num(100))]]]

\* app.py, comparison mode: the summary cards
web_summary(all) ==
    [t \in DOMAIN all |->
        LET latest == Last(all[t]["Close"])
        IN  [latest |-> latest,
             ret |-> FMul(FSub(FDiv(latest, all[t]["Close"][1]), Num(1)), Num(100))]]

\* CmpSleep3 without the sleep
CmpSleep3_skipped ==
    /\ mode = "compare"
    /\ UNCHANGED <<period, requests>>
    /\ frontend = "cli"
    /\ pc \in {"start", "cmp_loop"}
    /\ pc' = "cmp_slept"
    /\ UNCHANGED steps
    /\ UNCHANGED <<frontend, result, singlevars, cmpvars>>

\* compare_stocks, the fetch loop: time.sleep(3)
CmpSleep3 ==
    /\ mode = "compare"
    /\ UNCHANGED <<period, requests>>
    /\ frontend = "cli"
    /\ pc \in {"start", "cmp_loop"}
    /\ pc' = "cmp_slept"
    /\ steps' = Append(steps, "sleep3")
    /\ UNCHANGED <<frontend, result, singlevars, cmpvars>>

\* compare_stocks, the fetch loop: the request for the next ticker; after
\* the last ticker the loop ends
CmpFetch ==
    /\ mode = "compare"
    /\ requests' = Append(requests, period)
    /\ UNCHANGED period
    /\ frontend = "cli"
    /\ pc = "cmp_slept"
    /\ all_data' = compare_fetch(all_data, tickers[attempts + 1],
                                 BatchSource(attempts + 1))
    /\ attempts' = attempts + 1
    /\ steps' = Append(steps, "fetch")
    /\ pc' = IF attempts' = Len(tickers) THEN "cmp_fetched" ELSE "cmp_loop"
    /\ UNCHANGED <<frontend, result, singlevars, mode, tickers, batch, chart, summary>>

\* CmpCheck taken while tickers are still to be fetched
CmpCheck_early ==
    /\ mode = "compare"
    /\ UNCHANGED <<period, requests>>
    /\ frontend = "cli"
    /\ pc \in {"cmp_loop", "cmp_fetched"}
    /\ IF too_few(all_data)
       THEN pc' = "done" /\ result' = "False"
       ELSE pc' = "cmp_checked" /\ result' = result
    /\ steps' = Append(steps, "check")
    /\ UNCHANGED <<frontend, singlevars, cmpvars>>

\* compare_stocks: if len(all_data) < 2: return False
CmpCheck ==
    /\ mode = "compare"
    /\ UNCHANGED <<period, requests>>
    /\ frontend = "cli"
    /\ pc = "cmp_fetched"
    /\ IF too_few(all_data)
       THEN pc' = "done" /\ result' = "False"
       ELSE pc' = "cmp_checked" /\ result' = result
    /\ steps' = Append(steps, "check")
    /\ UNCHANGED <<frontend, singlevars, cmpvars>>

\* compare_stocks: the comparison chart and its file
CmpChart ==
    /\ mode = "compare"
    /\ UNCHANGED <<period, requests>>
    /\ frontend = "cli"
    /\ pc = "cmp_checked"
    /\ chart' = compare_chart(all_data)
    /\ steps' = steps \o <<"normalized", "rsi", "returns", "cumulative">>
    /\ pc' = "cmp_charted"
    /\ UNCHANGED <<frontend, result, singlevars, mode, tickers, batch, attempts,
                   all_data, summary>>

\* compare_stocks: the comparison summary; return True
CmpSummary ==
    /\ mode = "compare"
    /\ UNCHANGED <<period, requests>>
    /\ frontend = "cli"
    /\ pc = "cmp_charted"
    /\ summary' = compare_summary(all_data)
    /\ steps' = Append(steps, "summary")
    /\ pc' = "done"
    /\ result' = "True"
    /\ UNCHANGED <<frontend, singlevars, mode, tickers, batch, attempts, all_data, chart>>

\* app.py, comparison mode: fewer than 2 tickers entered gives a warning and
\* st.stop
WebCmpStart ==
    /\ mode = "compare"
    /\ UNCHANGED <<period, requests>>
    /\ frontend = "web"
    /\ pc = "start"
    /\ IF Len(tickers) < 2
       THEN /\ pc' = "done"
            /\ result' = "stopped"
            /\ steps' = Append(steps, "warning")
       ELSE /\ pc' = "cmp_loop"
            /\ UNCHANGED <<result, steps>>
    /\ UNCHANGED <<frontend, singlevars, cmpvars>>

\* app.py, comparison mode, the fetch loop: the request for the next ticker,
\* a warning when it raises
WebCmpFetch ==
    /\ mode = "compare"
    /\ requests' = Append(requests, period)
    /\ UNCHANGED period
    /\ frontend = "web"
    /\ pc = "cmp_loop"
    /\ all_data' = web_compare_fetch(all_data, tickers[attempts + 1],
                                     BatchSource(attempts + 1))
    /\ attempts' = attempts + 1
    /\ steps' = IF batch[attempts + 1] = "raise"
                THEN steps \o <<"fetch", "warning">>
                ELSE Append(steps, "fetch")
    /\ pc' = IF attempts' = Len(tickers) THEN "cmp_fetched" ELSE "cmp_loop"
    /\ UNCHANGED <<frontend, result, singlevars, mode, tickers, batch, chart, summary>>

\* app.py, comparison mode: if len(all_data) < 2: st.error and st.stop
WebCmpCheck ==
    /\ mode = "compare"
    /\ UNCHANGED <<period, requests>>
    /\ frontend = "web"
    /\ pc = "cmp_fetched"
    /\ IF too_few(all_data)
       THEN /\ pc' = "done"
            /\ result' = "stopped"
            /\ steps' = steps \o <<"check", "error">>
       ELSE /\ pc' = "cmp_checked"
            /\ result' = result
            /\ steps' = Append(steps, "check")
    /\ UNCHANGED <<frontend, singlevars, cmpvars>>

\* app.py, comparison mode: the summary cards
WebCmpSummary ==
    /\ mode = "compare"
    /\ UNCHANGED <<period, requests>>
    /\ frontend = "web"
    /\ pc = "cmp_checked"
    /\ summary' = web_summary(all_data)
    /\ steps' = Append(steps, "summary")
    /\ pc' = "cmp_summarised"
    /\ UNCHANGED <<frontend, result, singlevars, mode, tickers, batch, attempts,
                   all_data, chart>>

\* app.py, comparison mode: create_comparison_chart and st.pyplot
WebCmpChart ==
    /\ mode = "compare"
    /\ UNCHANGED <<period, requests>>
    /\ frontend = "web"
    /\ pc = "cmp_summarised"
    /\ chart' = create_comparison_chart(all_data)
    /\ steps' = steps \o <<"normalized", "rsi", "returns", "cumulative">>
    /\ pc' = "done"
    /\ result' = "rendered"
    /\ UNCHANGED <<frontend, singlevars, mode, tickers, batch, attempts, all_data,
                   summary>>

-----------------------------------------------------------------------------
(* The single-symbol pipelines *)

\* VALID_PERIODS, the periods the data source accepts
VALID_PERIODS ==
    {"1d", "5d", "1mo", "3mo", "6mo", "1y", "2y", "5y", "10y", "ytd", "max"}

\* app.py: the periods of the st.selectbox
selectbox_periods == {"1d", "5d", "1mo", "3mo", "6mo", "1y", "2y", "5y", "max"}

\* The period arguments tried: the default and one that is not valid
PeriodArgs == {"1mo", "3m"}

\* StockAnalyzer.__init__ without the validation of the period
valid_period_any(p) == TRUE

\* StockAnalyzer.__init__: self.period not in VALID_PERIODS ends in sys.exit(1)
valid_period(p) == p \in VALID_PERIODS

\* fetch_data without the test of self.data.empty
fetch_data_no_empty_test(src) ==
    IF src.outcome = "raise" THEN [status |-> "False", table |-> NoTable]
    ELSE [status |-> "True", table |-> PriceTable(src.close)]

\* StockAnalyzer.fetch_data: the try block and its handler
fetch_data(src) ==
    IF src.outcome = "raise" THEN [status |-> "False", table |-> NoTable]
    ELSE IF empty(PriceTable(src.close))
         THEN [status |-> "False", table |-> PriceTable(src.close)]
         ELSE [status |-> "True", table |-> PriceTable(src.close)]

\* app.py: fetch_stock_data inside try/except, then the data.empty test
web_fetch(src) ==
    IF src.outcome = "raise" THEN [status |-> "stopped", table |-> NoTable]
    ELSE IF empty(PriceTable(src.close))
         THEN [status |-> "stopped", table |-> PriceTable(src.close)]
         ELSE [status |-> "ok", table |-> PriceTable(src.close)]

\* One symbol: main with a single ticker; app.py in single-symbol mode
InitSingle ==
    /\ frontend \in {"cli", "web"}
    /\ source \in Sources
    /\ pc = "start"
    /\ fetched = NoTable
    /\ data = NoTable
    /\ analysis = NoAnalysis
    /\ result = "none"
    /\ steps = <<>>
    /\ mode = "single"
    /\ period \in (IF frontend = "cli" THEN PeriodArgs
                                      ELSE PeriodArgs \cap selectbox_periods)
    /\ requests = <<>>
    /\ tickers = <<"AAPL">>
    /\ batch = <<>>
    /\ attempts = 0
    /\ all_data = NoData
    /\ chart = NoChart
    /\ summary = NoSummary

\* Several symbols: main calls compare_stocks for more than one ticker;
\* app.py in comparison mode takes any list that is not empty
InitCompare ==
    /\ frontend \in {"cli", "web"}
    /\ tickers \in TickerLists(IF frontend = "cli" THEN 2 ELSE 1)
    /\ batch \in [1..Len(tickers) -> {"data", "empty", "raise"}]
    /\ mode = "compare"
    /\ period \in (IF frontend = "cli" THEN PeriodArgs
                                      ELSE PeriodArgs \cap selectbox_periods)
    /\ requests = <<>>
    /\ pc = "start"
    /\ source = [outcome |-> "unused", close |-> <<>>]
    /\ fetched = NoTable
    /\ data = NoTable
    /\ analysis = NoAnalysis
    /\ result = "none"
    /\ steps = <<>>
    /\ attempts = 0
    /\ all_data = NoData
    /\ chart = NoChart
    /\ summary = NoSummary

Init ==
    \/ InitSingle
    \/ InitCompare

\* main with one ticker: StockAnalyzer(tickers[0], args.period); the
\* constructor leaves with sys.exit(1) on a period that is not valid
CliInit ==
    /\ mode = "single"
    /\ UNCHANGED <<period, requests>>
    /\ UNCHANGED cmpvars
    /\ frontend = "cli"
    /\ pc = "start"
    /\ IF valid_period(period)
       THEN /\ pc' = "constructed"
            /\ UNCHANGED <<result, steps>>
       ELSE /\ pc' = "done"
            /\ result' = "exit1"
            /\ steps' = Append(steps, "exit")
    /\ UNCHANGED <<frontend, source, fetched, data, analysis>>

\* StockAnalyzer.run: time.sleep(3)
Sleep3 ==
    /\ mode = "single"
    /\ UNCHANGED <<period, requests>>
    /\ UNCHANGED cmpvars
    /\ frontend = "cli"
    /\ pc = "constructed"
    /\ pc' = "slept"
    /\ steps' = Append(steps, "sleep3")
    /\ UNCHANGED <<frontend, source, fetched, data, analysis, result>>

\* StockAnalyzer.run: if not self.fetch_data(): return False
FetchData ==
    /\ mode = "single"
    /\ requests' = Append(requests, period)
    /\ UNCHANGED period
    /\ UNCHANGED cmpvars
    /\ frontend = "cli"
    /\ pc = "slept"
    /\ LET r == fetch_data(source)
       IN  /\ fetched' = r.table
           /\ data' = r.table
           /\ steps' = Append(steps, "fetch")
           /\ IF r.status = "True"
              THEN pc' = "fetched" /\ result' = result
              ELSE pc' = "done" /\ result' = r.status
    /\ UNCHANGED <<frontend, source, analysis>>

\* StockAnalyzer.run: time.sleep(2); self.calculate_technical_indicators().
\* self.data is the table fetch_data stored, and it is written in place.
CliCalculate ==
    /\ mode = "single"
    /\ UNCHANGED <<period, requests>>
    /\ UNCHANGED cmpvars
    /\ frontend = "cli"
    /\ pc = "fetched"
    /\ data' = calculate_technical_indicators(data)
    /\ fetched' = data'
    /\ pc' = "calculated"
    /\ steps' = steps \o <<"sleep2", "calculate">>
    /\ UNCHANGED <<frontend, source, analysis, result>>

\* StockAnalyzer.run: time.sleep(2); self.plot_chart().  plot_chart calls
\* analyze_trend, whose iloc[-1] raises IndexError on a table without rows.
CliPlotChart ==
    /\ mode = "single"
    /\ UNCHANGED <<period, requests>>
    /\ UNCHANGED cmpvars
    /\ frontend = "cli"
    /\ pc = "calculated"
    /\ IF empty(data)
       THEN /\ pc' = "done"
            /\ result' = "IndexError"
            /\ steps' = steps \o <<"sleep2", "analyze">>
            /\ UNCHANGED analysis
       ELSE /\ analysis' = analyze_trend(data)
            /\ pc' = "charted"
            /\ steps' = steps \o <<"sleep2", "analyze", "chart">>
            /\ UNCHANGED result
    /\ UNCHANGED <<frontend, source, fetched, data>>

\* StockAnalyzer.run: self.generate_report(); return True
CliReport ==
    /\ mode = "single"
    /\ UNCHANGED <<period, requests>>
    /\ UNCHANGED cmpvars
    /\ frontend = "cli"
    /\ pc = "charted"
    /\ analysis' = analyze_trend(data)
    /\ pc' = "done"
    /\ result' = "True"
    /\ steps' = steps \o <<"analyze", "report">>
    /\ UNCHANGED <<frontend, source, fetched, data>>

\* app.py, single-symbol mode: the fetch; st.error and st.stop on an
\* exception or an empty table
WebFetch ==
    /\ mode = "single"
    /\ requests' = Append(requests, period)
    /\ UNCHANGED period
    /\ UNCHANGED cmpvars
    /\ frontend = "web"
    /\ pc = "start"
    /\ LET r == web_fetch(source)
       IN  /\ fetched' = r.table
           /\ data' = r.table
           /\ IF r.status = "ok"
              THEN pc' = "fetched" /\ result' = result
                   /\ steps' = Append(steps, "fetch")
              ELSE pc' = "done" /\ result' = r.status
                   /\ steps' = steps \o <<"fetch", "error">>
    /\ UNCHANGED <<frontend, source, analysis>>

\* app.py: data = calculate_indicators(data); the fetched table is copied
WebCalculate ==
    /\ mode = "single"
    /\ UNCHANGED <<period, requests>>
    /\ UNCHANGED cmpvars
    /\ frontend = "web"
    /\ pc = "fetched"
    /\ data' = calculate_indicators(data)
    /\ pc' = "calculated"
    /\ steps' = Append(steps, "calculate")
    /\ UNCHANGED <<frontend, source, fetched, analysis, result>>

\* app.py: the analysis values, the trend badge and the metric cards;
\* iloc[-1] raises IndexError on a table without rows
WebAnalyze ==
    /\ mode = "single"
    /\ UNCHANGED <<period, requests>>
    /\ UNCHANGED cmpvars
    /\ frontend = "web"
    /\ pc = "calculated"
    /\ IF empty(data)
       THEN /\ pc' = "done"
            /\ result' = "IndexError"
            /\ UNCHANGED analysis
       ELSE /\ analysis' = web_analysis(data)
            /\ pc' = "analyzed"
            /\ UNCHANGED result
    /\ steps' = Append(steps, "analyze")
    /\ UNCHANGED <<frontend, source, fetched, data>>

\* app.py: create_single_chart, st.pyplot, the data table
WebChart ==
    /\ mode = "single"
    /\ UNCHANGED <<period, requests>>
    /\ UNCHANGED cmpvars
    /\ frontend = "web"
    /\ pc = "analyzed"
    /\ pc' = "done"
    /\ result' = "rendered"
    /\ steps' = Append(steps, "chart")
    /\ UNCHANGED <<frontend, source, fetched, data, analysis>>

Next ==
    \/ CliInit
    \/ Sleep3
    \/ FetchData
    \/ CliCalculate
    \/ CliPlotChart
    \/ CliReport
    \/ WebFetch
    \/ WebCalculate
    \/ WebAnalyze
    \/ WebChart
    \/ CmpSleep3
    \/ CmpFetch
    \/ CmpCheck
    \/ CmpChart
    \/ CmpSummary
    \/ WebCmpStart
    \/ WebCmpFetch
    \/ WebCmpCheck
    \/ WebCmpSummary
    \/ WebCmpChart

Spec == Init /\ [][Next]_vars

-----------------------------------------------------------------------------
(* Properties *)

HasAnalysis == "trend" \in DOMAIN analysis
HasIndicators == "RSI" \in DOMAIN data

\* a < b and a = b on finite values, by cross-multiplication
Less(a, b) == a.d > 0 /\ b.d > 0 /\ a.n * b.d < b.n * a.d
Same(a, b) == a.d > 0 /\ b.d > 0 /\ a.n * b.d = b.n * a.d

Defined(x) == x.d > 0

\* c[lo] + ... + c[hi] of an integer sequence
RECURSIVE SumInts(_, _, _)
SumInts(c, lo, hi) ==
    IF lo > hi THEN 0
    ELSE IF lo = hi THEN c[lo]
    ELSE SumInts(c, lo, (lo + hi) \div 2) + SumInts(c, (lo + hi) \div 2 + 1, hi)

\* the 14 rows ending at row i: sums of the rises and of the falls of the
\* close, a row without a previous row contributing nothing
RECURSIVE Rise14(_, _, _)
Rise14(c, j, i) ==
    IF j > i THEN 0
    ELSE (IF j >= 2 /\ c[j] > c[j - 1] THEN c[j] - c[j - 1] ELSE 0) + Rise14(c, j + 1, i)

RECURSIVE Fall14(_, _, _)
Fall14(c, j, i) ==
    IF j > i THEN 0
    ELSE (IF j >= 2 /\ c[j] < c[j - 1] THEN c[j - 1] - c[j] ELSE 0) + Fall14(c, j + 1, i)

LastClose == Last(data["Close"])
LastSMA10 == Last(data["SMA_10"])
LastSMA30 == Last(data["SMA_30"])
LastRSI == Last(data["RSI"])
LastMACD == Last(data["MACD"])
LastSignal == Last(data["Signal"])

\* C1: when the last row has a defined close, SMA_10 and SMA_30, the trend
\* label of either frontend is the one the ordered rules give: close > SMA_10
\* > SMA_30 strong bullish; else close > SMA_10 bullish; else close < SMA_10
\* < SMA_30 strong bearish; else close < SMA_10 bearish; else sideways.
\* (110,105,100) is strong bullish, (90,95,100) strong bearish, (100,100,100)
\* sideways.
C1_TrendDecisionTree ==
    /\ (HasAnalysis /\ Defined(LastSMA10) /\ Defined(LastSMA30)) =>
          /\ (Less(LastSMA10, LastClose) /\ Less(LastSMA30, LastSMA10))
                => analysis.trend = "Strong Bullish"
          /\ (Less(LastSMA10, LastClose) /\ ~Less(LastSMA30, LastSMA10))
                => analysis.trend = "Moderately Bullish"
          /\ (Less(LastClose, LastSMA10) /\ Less(LastSMA10, LastSMA30))
                => analysis.trend = "Strong Bearish"
          /\ (Less(LastClose, LastSMA10) /\ ~Less(LastSMA10, LastSMA30))
                => analysis.trend = "Moderately Bearish"
          /\ Same(LastClose, LastSMA10) => analysis.trend = "Sideways"
    /\ trend_cli(Num(110), Num(105), Num(100)) = "Strong Bullish"
    /\ trend_cli(Num(90), Num(95), Num(100)) = "Strong Bearish"
    /\ trend_cli(Num(100), Num(100), Num(100)) = "Sideways"
    /\ trend_web(Num(110), Num(105), Num(100)) = "Strong Bullish"
    /\ trend_web(Num(90), Num(95), Num(100)) = "Strong Bearish"
    /\ trend_web(Num(100), Num(100), Num(100)) = "Sideways"

\* a close above SMA_10 with SMA_10 not above SMA_30: the second rule decides
C1_Witness ==
    /\ HasAnalysis
    /\ Defined(LastSMA10) /\ Defined(LastSMA30)
    /\ Less(LastSMA10, LastClose) /\ ~Less(LastSMA30, LastSMA10)
    /\ analysis.trend = "Moderately Bullish"

\* C2: whenever SMA_10 or SMA_30 of the last row is undefined, the trend
\* label is the insufficient-data label, in the CLI and in the web dashboard.
C2_InsufficientData ==
    (HasAnalysis /\ (isna(LastSMA10) \/ isna(LastSMA30)))
        => analysis.trend = "Insufficient Data"

\* C3: the RSI signal of the last row is overbought exactly when RSI > 70,
\* oversold exactly when RSI < 30 and neutral otherwise; an undefined RSI
\* gives neutral, in the CLI and in the web dashboard.
C3_RsiSignal ==
    HasAnalysis =>
        /\ analysis.rsi_signal = "Overbought" <=> Less(Num(70), LastRSI)
        /\ analysis.rsi_signal = "Oversold" <=> Less(LastRSI, Num(30))
        /\ analysis.rsi_signal \in {"Overbought", "Oversold", "Neutral"}
        /\ isna(LastRSI) => analysis.rsi_signal = "Neutral"

\* C4: at every row whose 14-row window is full and has no fall of the close,
\* RSI is exactly 100, also when the window has no rise either.
C4_ZeroLossIs100 ==
    HasIndicators =>
        \A i \in 14..NRows(data) :
            Fall14(source.close, i - 13, i) = 0 => data["RSI"][i] = Num(100)

\* C5: every defined RSI lies in [0, 100], and RSI is exactly 100 at every
\* row whose trailing 14 rows have no fall and at least one rise of the close.
C5_RsiRange ==
    HasIndicators =>
        \A i \in 1..NRows(data) :
            LET rsi == data["RSI"][i]
            IN  /\ ~isna(rsi) =>
                      /\ Defined(rsi)
                      /\ ~Less(rsi, Num(0))
                      /\ ~Less(Num(100), rsi)
                /\ (/\ i >= 14
                    /\ Fall14(source.close, i - 13, i) = 0
                    /\ Rise14(source.close, i - 13, i) > 0) => rsi = Num(100)

\* a row with RSI strictly between 0 and 100 and a later row with only rises
\* in its window
C5_Witness ==
    /\ HasIndicators
    /\ \E i \in 14..NRows(data) :
          Less(Num(0), data["RSI"][i]) /\ Less(data["RSI"][i], Num(100))
    /\ \E i \in 14..NRows(data) :
          /\ Fall14(source.close, i - 13, i) = 0
          /\ Rise14(source.close, i - 13, i) > 0
          /\ data["RSI"][i] = Num(100)

\* C6: RSI is undefined at each of the first 14 rows (row indices 0 to 13);
\* the first row's missing change is not counted as a zero change.
C6_RsiFirst14Undefined ==
    HasIndicators => \A i \in 1..Min(14, NRows(data)) : isna(data["RSI"][i])

\* C7: for k in {10, 30, 60}, SMA_k at row i >= k-1 is the mean of the k
\* closes ending at row i, and SMA_k is undefined at every earlier row (so
\* the whole column is undefined for a series shorter than k).
C7_Sma ==
    HasIndicators =>
        \A k \in {10, 30, 60} :
            LET col == data[CASE k = 10 -> "SMA_10" [] k = 30 -> "SMA_30"
                              [] OTHER -> "SMA_60"]
            IN  \A i \in 1..NRows(data) :
                    IF i < k THEN isna(col[i])
                    ELSE /\ Defined(col[i])
                         /\ col[i].n * k = SumInts(source.close, i - k + 1, i) * col[i].d

\* a series of at least 60 bars that does not stay flat
C7_Witness ==
    /\ HasIndicators
    /\ NRows(data) >= 60
    /\ Defined(Last(data["SMA_60"]))
    /\ ~Same(Last(data["SMA_60"]), Last(data["SMA_10"]))

\* C8: the MACD signal of the last row is bullish exactly when MACD > Signal
\* and bearish otherwise; MACD = Signal (0.5 and 0.5) is bearish, in the CLI
\* and in the web dashboard.
C8_MacdSignal ==
    /\ HasAnalysis =>
          /\ Less(LastSignal, LastMACD) => analysis.macd_signal = "Bullish"
          /\ ~Less(LastSignal, LastMACD) => analysis.macd_signal = "Bearish"
    /\ macd_signal_cli(Rat(1, 2), Rat(1, 2)) = "Bearish"
    /\ macd_signal_web(Rat(1, 2), Rat(1, 2)) = "Bearish"

\* a last row with MACD equal to Signal
C8_Witness ==
    /\ HasAnalysis
    /\ Same(LastMACD, LastSignal)
    /\ analysis.macd_signal = "Bearish"

\* C9: after the indicator computation the table the data source returned
\* has the same columns and values as before.
C9_SourceUnchanged ==
    pc \in {"calculated", "charted", "analyzed", "done"} /\ "Close" \in DOMAIN fetched
        => fetched = PriceTable(source.close)

\* C10: when the data source returns an empty series or raises, the request
\* ends in its failure outcome (CLI: run returns False; web: error and stop)
\* without an exception, and no indicator computation, classification, chart
\* or report step is executed.
C10_EmptyOrRaise ==
    source.outcome \in {"empty", "raise"} =>
        /\ \A i \in 1..Len(steps) :
              steps[i] \notin {"calculate", "analyze", "chart", "report"}
        /\ ~HasIndicators
        /\ ~HasAnalysis
        /\ pc \in {"start", "constructed", "slept", "done"}
        /\ pc = "done" /\ requests # <<>>
              => result = (IF frontend = "cli" THEN "False" ELSE "stopped")

\* a failed request that has ended
C10_Witness ==
    /\ source.outcome \in {"empty", "raise"}
    /\ pc = "done"
    /\ requests # <<>>
    /\ "fetch" \in {steps[i] : i \in 1..Len(steps)}


\* C14: MACD, Signal and Histogram are defined at every row, the first
\* included; the averages start from the first value (so the first MACD is
\* the first close less itself, the first Signal is the first MACD, and the
\* second row follows the recurrence from those seeds); and Histogram is MACD
\* less Signal at every row.
C14_MacdEveryRow ==
    HasIndicators =>
        /\ \A i \in 1..NRows(data) :
              /\ Defined(data["MACD"][i])
              /\ Defined(data["Signal"][i])
              /\ Defined(data["Histogram"][i])
              /\ EmaScale % data["MACD"][i].d = 0
              /\ EmaScale % data["Signal"][i].d = 0
              /\ EmaScale % data["Histogram"][i].d = 0
              /\ ToFix(data["Histogram"][i])
                     = ToFix(data["MACD"][i]) - ToFix(data["Signal"][i])
        /\ NRows(data) >= 1 =>
              /\ data["MACD"][1] = Num(0)
              /\ data["Signal"][1] = Num(0)
              /\ data["Histogram"][1] = Num(0)
        /\ NRows(data) >= 2 =>
              LET c == source.close
                  e12 == (11 * c[1] * EmaScale + 2 * c[2] * EmaScale) \div 13
                  e26 == (25 * c[1] * EmaScale + 2 * c[2] * EmaScale) \div 27
              IN  /\ ToFix(data["MACD"][2]) = e12 - e26
                  /\ ToFix(data["Signal"][2]) = (2 * (e12 - e26)) \div 10

\* a table of several rows whose MACD has left zero and its signal line
C14_Witness ==
    /\ HasIndicators
    /\ NRows(data) >= 2
    /\ data["MACD"][1] = Num(0)
    /\ data["MACD"][2] # Num(0)
    /\ Last(data["Histogram"]) # Num(0)

\* C15: at every row from the 20th on the three Bollinger bands are defined,
\* Upper >= Middle >= Lower, Middle is the mean of the 20 closes ending at
\* the row, and Upper - Middle = Middle - Lower; at every earlier row all
\* three are undefined.
C15_Bollinger ==
    HasIndicators =>
        \A i \in 1..NRows(data) :
            LET U == data["BB_Upper"][i]
                M == data["BB_Middle"][i]
                L == data["BB_Lower"][i]
            IN  IF i < 20
                THEN isna(U) /\ isna(M) /\ isna(L)
                ELSE /\ Defined(U) /\ Defined(M) /\ Defined(L)
                     /\ ~Less(U, M)
                     /\ ~Less(M, L)
                     /\ M.n * 20 = SumInts(source.close, i - 19, i) * M.d
                     /\ FSub(U, M) = FSub(M, L)

\* a table whose last row has bands off the middle, and undefined bands at
\* its 19th row
C15_Witness ==
    /\ HasIndicators
    /\ NRows(data) >= 20
    /\ isna(data["BB_Upper"][19])
    /\ Less(Last(data["BB_Middle"]), Last(data["BB_Upper"]))
    /\ Less(Last(data["BB_Lower"]), Last(data["BB_Middle"]))

\* C16: computing the indicators again on a table that already carries the
\* indicator columns gives the same table: the columns are recomputed from
\* Close alone, so applying the computation twice equals applying it once.
C16_Idempotent ==
    pc = "calculated" =>
        IF frontend = "cli"
        THEN calculate_technical_indicators(data) = data
        ELSE calculate_indicators(data) = data

\* a computed table long enough for every column to have a defined value
C16_Witness ==
    /\ pc = "calculated"
    /\ HasIndicators
    /\ NRows(data) >= 60
    /\ Defined(Last(data["SMA_60"]))
    /\ Defined(Last(data["RSI"]))

\* C18: the period return is (last close / first close - 1) * 100, and it is
\* exactly 0 for a series whose closes are all equal, a single bar included.
C18_PeriodReturn ==
    HasAnalysis =>
        LET c == source.close
            pr == analysis.period_return
        IN  /\ Defined(pr)
            /\ pr.n * c[1] = (c[Len(c)] - c[1]) * 100 * pr.d
            /\ (\A i \in 1..Len(c) : c[i] = c[1]) => pr = Num(0)

\* the analysis of a single bar, and the analysis of a series that moved
C18_Witness ==
    /\ HasAnalysis
    /\ \/ Len(source.close) = 1 /\ analysis.period_return = Num(0)
       \/ Len(source.close) > 1 /\ Less(Num(0), analysis.period_return)

\* C20: on the same series the command-line and the web implementation
\* produce the same SMA, Volatility, RSI, MACD, Signal, Histogram and
\* Bollinger columns at every row and the same trend, RSI-signal and
\* MACD-signal categories at the last row, for every series length.
C20_CliWebEquivalent ==
    frontend = "web" /\ HasAnalysis =>
        LET t == calculate_technical_indicators(PriceTable(source.close))
            a == analyze_trend(t)
        IN  /\ \A col \in {"SMA_10", "SMA_30", "SMA_60", "Volatility", "RSI",
                           "MACD", "Signal", "Histogram",
                           "BB_Middle", "BB_Upper", "BB_Lower"} :
                  t[col] = data[col]
            /\ a.trend = analysis.trend
            /\ a.rsi_signal = analysis.rsi_signal
            /\ a.macd_signal = analysis.macd_signal

-----------------------------------------------------------------------------
(* Properties of the comparison *)

\* the symbols among the first n requests of the batch whose request
\* returned a table with bars
Valid(n) ==
    {tickers[j] : j \in {k \in 1..n : batch[k] = "data" /\ HistoryOf(tickers[k]) # <<>>}}

StepCount(e) == Cardinality({i \in 1..Len(steps) : steps[i] = e})

Metrics == {"normalized", "rsi", "returns", "cumulative", "summary"}

\* the fetch loop has run and ended
AfterLoop ==
    /\ mode = "compare"
    /\ pc \notin {"start", "cmp_loop", "cmp_slept"}
    /\ ~(frontend = "web" /\ Len(tickers) < 2)

\* C11: a comparison request in which fewer than 2 symbols returned bars
\* ends in its failure outcome (CLI: compare_stocks returns False; web:
\* stop) and produces no normalized-price, RSI, return or summary output;
\* with 2 or more such symbols the comparison is produced for them.
C11_InsufficientComparisonSet ==
    mode = "compare" =>
        /\ Cardinality(Valid(Len(tickers))) < 2 =>
              /\ ~HasChart
              /\ DOMAIN summary = {}
              /\ \A i \in 1..Len(steps) : steps[i] \notin Metrics
              /\ pc = "done" =>
                    result = (IF frontend = "cli" THEN "False" ELSE "stopped")
        /\ Cardinality(Valid(Len(tickers))) >= 2 /\ pc = "done" =>
              /\ result = (IF frontend = "cli" THEN "True" ELSE "rendered")
              /\ HasChart
              /\ \A panel \in DOMAIN chart :
                    DOMAIN chart[panel] = Valid(Len(tickers))
              /\ DOMAIN summary = Valid(Len(tickers))

\* a request of three tickers of which one symbol returned bars, ended
C11_Witness ==
    /\ mode = "compare"
    /\ pc = "done"
    /\ Len(tickers) = 3
    /\ attempts = 3
    /\ Cardinality(Valid(3)) = 1
    /\ result \in {"False", "stopped"}

\* C12: a symbol whose request returns no bars or raises is left out of the
\* comparison set and does not stop the remaining requests: at every point
\* the set holds exactly the symbols attempted so far whose request
\* returned bars, with those bars, and after the loop every requested
\* ticker has been attempted.
C12_FailuresExcluded ==
    mode = "compare" =>
        /\ DOMAIN all_data = Valid(attempts)
        /\ \A t \in DOMAIN all_data :
              ~empty(all_data[t]) /\ all_data[t] = PriceTable(HistoryOf(t))
        /\ StepCount("fetch") = attempts
        /\ AfterLoop => attempts = Len(tickers)

\* a failed request followed by a request of another symbol that returned
\* bars and is in the set, after the loop
C12_Witness ==
    /\ AfterLoop
    /\ \E j \in 1..Len(tickers) : \E k \in 1..Len(tickers) :
          /\ j < k
          /\ batch[j] \in {"empty", "raise"}
          /\ batch[k] = "data"
          /\ tickers[j] \notin DOMAIN all_data
          /\ tickers[k] \in DOMAIN all_data

\* C13: no comparison metric is produced, and the size of the comparison
\* set is not tested, before every requested ticker's request has ended:
\* every fetch step comes before the test, and the test before every
\* metric.
C13_AggregationAfterFetches ==
    mode = "compare" =>
        /\ \A i \in 1..Len(steps) :
              steps[i] \in Metrics \cup {"check"} =>
                  /\ Cardinality({j \in 1..i : steps[j] = "fetch"}) = Len(tickers)
                  /\ \A j \in i..Len(steps) : steps[j] # "fetch"
                  /\ steps[i] \in Metrics => \E j \in 1..(i - 1) : steps[j] = "check"
        /\ HasChart \/ DOMAIN summary # {} => attempts = Len(tickers)

\* a comparison of three tickers, one request failed, produced
C13_Witness ==
    /\ mode = "compare"
    /\ pc = "done"
    /\ HasChart
    /\ DOMAIN summary # {}
    /\ Len(tickers) = 3
    /\ \E j \in 1..3 : batch[j] # "data"
    /\ StepCount("summary") = 1

\* C17: for every symbol of the comparison set (first close not 0) the
\* normalized price is 100 and the cumulative return 0 at the first bar, at
\* every bar normalized = close / first close * 100 = cumulative + 100, and
\* the last cumulative return is the period return of the summary,
\* (last close / first close - 1) * 100.
C17_NormalizedAndCumulative ==
    mode = "compare" /\ HasChart =>
        \A t \in DOMAIN chart.normalized :
            LET c == HistoryOf(t)
                norm == chart.normalized[t]
                cum == chart.cumulative[t]
            IN  c[1] # 0 =>
                    /\ Len(norm) = Len(c)
                    /\ Len(cum) = Len(c)
                    /\ norm[1] = Num(100)
                    /\ cum[1] = Num(0)
                    /\ \A i \in 1..Len(c) :
                          /\ Defined(norm[i])
                          /\ Defined(cum[i])
                          /\ norm[i].n * c[1] = c[i] * 100 * norm[i].d
                          /\ norm[i].n * cum[i].d = (cum[i].n + 100 * cum[i].d) * norm[i].d
                    /\ t \in DOMAIN summary =>
                          /\ summary[t].ret = Last(cum)
                          /\ summary[t].ret.n * c[1]
                                 = (c[Len(c)] - c[1]) * 100 * summary[t].ret.d

\* a produced comparison with a summary, holding a symbol that moved and a
\* symbol of a single bar
C17_Witness ==
    /\ mode = "compare"
    /\ HasChart
    /\ DOMAIN summary # {}
    /\ \E t \in DOMAIN summary :
          Len(chart.normalized[t]) > 1 /\ summary[t].ret # Num(0)
    /\ \E t \in DOMAIN summary : Len(chart.normalized[t]) = 1

\* C19: in the CLI every request to the data source comes right after a
\* 3-second sleep, in run and in compare_stocks, for every ticker.
C19_SleepBeforeFetch ==
    frontend = "cli" =>
        \A i \in 1..Len(steps) :
            steps[i] = "fetch" => i > 1 /\ steps[i - 1] = "sleep3"

\* a CLI comparison that has requested three tickers
C19_Witness ==
    /\ frontend = "cli"
    /\ mode = "compare"
    /\ StepCount("fetch") = 3
    /\ StepCount("sleep3") = 3

\* C21: every request the CLI sends to the data source carries a period of
\* VALID_PERIODS: a period that is not valid ends the program before any
\* request, for one ticker and for a comparison of several tickers.
C21_ValidPeriodFetch ==
    frontend = "cli" =>
        \A i \in 1..Len(requests) : requests[i] \in VALID_PERIODS

\* the label is the one its region of the (close, SMA_10, SMA_30) space names
TrendPartition(label, c, a, b) ==
    /\ label = "Sideways" <=> Same(c, a)
    /\ label = "Strong Bullish" <=> Less(a, c) /\ Less(b, a)
    /\ label = "Moderately Bullish" <=> Less(a, c) /\ ~Less(b, a)
    /\ label = "Strong Bearish" <=> Less(c, a) /\ Less(a, b)
    /\ label = "Moderately Bearish" <=> Less(c, a) /\ ~Less(a, b)

\* bullish, bearish or sideways, the strength left out
TrendClass(label) ==
    IF label \in {"Strong Bullish", "Moderately Bullish"} THEN "bullish"
    ELSE IF label \in {"Strong Bearish", "Moderately Bearish"} THEN "bearish"
    ELSE label

\* values of close and of SMA_30 below, at and above an SMA_10 of Mid
Levels == {Num(1), Num(2), Num(3)}
Mid == Num(2)

\* C22: with close, SMA_10 and SMA_30 defined, each input has exactly one of
\* the five labels: sideways iff close = SMA_10; bullish iff close > SMA_10
\* and SMA_10 <= SMA_30; bearish iff close < SMA_10 and SMA_10 >= SMA_30; the
\* strong variants iff SMA_10 > SMA_30, resp. SMA_10 < SMA_30, besides.  So
\* SMA_30 moves a label between strong and plain only, never between
\* bullish, bearish and sideways.  Both frontends, once an analysis is made:
\* on its last row, and on every position of close and of SMA_30 relative to
\* SMA_10.
C22_TrendPartition ==
    HasAnalysis =>
        /\ (Defined(LastSMA10) /\ Defined(LastSMA30)) =>
              TrendPartition(analysis.trend, LastClose, LastSMA10, LastSMA30)
        /\ \A c \in Levels, b \in Levels :
              /\ TrendPartition(trend_cli(c, Mid, b), c, Mid, b)
              /\ TrendPartition(trend_web(c, Mid, b), c, Mid, b)
              /\ TrendClass(trend_cli(c, Mid, b)) = TrendClass(trend_cli(c, Mid, Mid))
              /\ TrendClass(trend_web(c, Mid, b)) = TrendClass(trend_web(c, Mid, Mid))

\* an analysed last row with the close equal to SMA_10 and away from SMA_30:
\* sideways, whatever SMA_30 is
C22_Witness ==
    /\ HasAnalysis
    /\ Defined(LastSMA10)
    /\ Defined(LastSMA30)
    /\ Same(LastClose, LastSMA10)
    /\ ~Same(LastSMA10, LastSMA30)
    /\ analysis.trend = "Sideways"

=============================================================================
